---- MODULE Spec2Model ----
(***************************************************************************)
(* State-machine model of the zoom-translate browser application:          *)
(*   - translateText                 (src/utils/translator.ts)             *)
(*   - useFlashTranscriber           (src/hooks/use-flash-transcriber.ts)  *)
(*   - App wiring / processTranscript (src/components/AudioVisualizer.tsx) *)
(*   - useLiveApi, TTS variant       (src/unnamed/part_002)                *)
(*   - useLiveApi, streaming variant (src/unnamed/part_003)                *)
(* The specifications of the module: SpecTranslate (one call of            *)
(* translateText), Spec and SpecSteady (the hybrid pipeline), SpecLive and *)
(* SpecLiveFaults (the streaming session).  Each leaves the other parts'   *)
(* variables unchanged.                                                    *)
(***************************************************************************)
EXTENDS Integers, Sequences, FiniteSets, TLC

(***************************************************************************)
(* Bounds of the model.                                                    *)
(***************************************************************************)
\* longest text drawn as an input or a remote response
MaxLen == 2
\* calls of translateText explored by SpecTranslate
MaxCalls == 2

(***************************************************************************)
(* Text: a string is a sequence of characters; " " is whitespace.          *)
(***************************************************************************)
Chars == {" ", "a", "b"}

Texts == UNION {[1..n -> Chars] : n \in 0..MaxLen}

\* a remote response whose .text is undefined
NoText == <<"undefined">>

IsSpace(c) == c = " "

RECURSIVE TrimStart(_)
TrimStart(s) ==
  IF s = <<>> THEN <<>>
  ELSE IF IsSpace(Head(s)) THEN TrimStart(Tail(s)) ELSE s

RECURSIVE TrimEnd(_)
TrimEnd(s) ==
  IF s = <<>> THEN <<>>
  ELSE IF IsSpace(s[Len(s)]) THEN TrimEnd(SubSeq(s, 1, Len(s) - 1)) ELSE s

\* String.prototype.trim
Trim(s) == TrimEnd(TrimStart(s))

\* a JS string is truthy iff it is not empty
Truthy(s) == s # <<>>

(***************************************************************************)
(* State                                                                   *)
(***************************************************************************)
\* one call of translateText
VARIABLES
  ttPc,        \* position of the translateText call: idle | awaiting | returned | threw
  ttText,      \* the argument text of the call
  ttResult,    \* the value the call returned
  ttRequests,  \* remote generateContent requests issued by the current call
  ttFailed,    \* the remote call of the current call rejected
  ttCalls      \* calls made so far

ttVars == <<ttPc, ttText, ttResult, ttRequests, ttFailed, ttCalls>>

\* the hybrid pipeline
VARIABLES
  apiKey,          \* process.env.API_KEY is set
  selectedDevice,  \* App state selectedDevice (its type)
  stream,          \* useMediaStream: stream is non-null
  isStreaming,     \* useMediaStream: isStreaming
  connecting,      \* pending App.connect() calls awaiting startStream: the device each captured
  connects,        \* connect clicks so far
  connectionState, \* useLiveApi: connectionState
  sessionRef,      \* useLiveApi: sessionPromiseRef.current is non-null
  unopened,        \* live sessions created whose onopen has not fired yet
  opened,          \* live sessions whose onopen has fired and that are not closed
  isListening,     \* useWebSpeech: isListening
  speechN,         \* final speech results so far
  timer,           \* useFlashTranscriber: the setTimeout(startRecording, 250) is pending
  recState,        \* mediaRecorderRef.current: none | recording | inactive
  recSess,         \* capture session of mediaRecorderRef.current
  recConn,         \* the closure of that recorder's handler captured connectionState = CONNECTED
  sessions,        \* capture sessions started so far
  flushing,        \* stopped recorders whose final dataavailable is still queued
  chunks,          \* blobs delivered to ondataavailable, in capture order
  transcripts,     \* texts handed to processTranscript, in hand-over order
  chunkError       \* a processAudioChunk promise rejected (nothing handles it)

pipeVars == <<apiKey, selectedDevice, stream, isStreaming, connecting, connects,
              connectionState, sessionRef, unopened, opened, isListening, speechN,
              timer, recState, recSess, recConn, sessions, flushing, chunks,
              transcripts, chunkError>>

\* the streaming session
VARIABLES
  audioDevice,           \* App.tsx state selectedDevice (its type), the hook's audioDevice
  liveKey,               \* process.env.API_KEY is set
  liveState,             \* part_003: connectionState
  liveError,             \* part_003: error is non-null
  audioContextRef,       \* audioContextRef.current is non-null
  outputAudioContextRef, \* outputAudioContextRef.current is non-null
  mediaStreamRef,        \* the connect() call whose stream mediaStreamRef.current holds, 0 for null
  processorRef,          \* the session whose processor processorRef.current holds, 0 for null
  sessionPromiseRef,     \* the session sessionPromiseRef.current holds, 0 for null
  liveProcessors,        \* sessions whose script processor is still connected
  liveStreams,           \* connect() calls whose stream still has live tracks
  liveCalls,             \* connect() calls past their first await
  liveSessions,          \* sessions ai.live.connect created, in creation order
  liveFrames,            \* audio frames captured so far
  liveMessages,          \* server messages received so far
  livePlayed,            \* audio buffers scheduled for playback so far
  liveTexts              \* sendText calls so far

liveVars == <<liveTexts, audioDevice, liveKey, liveState, liveError, audioContextRef,
              outputAudioContextRef, mediaStreamRef, processorRef, sessionPromiseRef,
              liveProcessors, liveStreams, liveCalls, liveSessions, liveFrames,
              liveMessages, livePlayed>>

\* playback of the audio the session delivers
VARIABLES
  playRef,               \* the context outputAudioContextRef.current holds, 0 for null
  playState,             \* state of each output context created, in creation order
  playClock,             \* currentTime of each output context
  nextStartTimeRef,      \* nextStartTimeRef.current
  playWaiting,           \* onmessage handlers suspended at await resume(), in call order
  playStarted,           \* source.start calls so far, in call order
  playArrivals           \* server messages with audio received so far

playVars == <<playRef, playState, playClock, nextStartTimeRef, playWaiting,
              playStarted, playArrivals>>

\* useMediaStream on its own
VARIABLES
  msHook,                \* the version of the hook: "ref" (part_005) or "closure" (use-media-stream.ts)
  msDevice,              \* the selectedDevice argument (its type)
  msStream,              \* state stream: the stream it holds, 0 for null
  msIsStreaming,         \* state isStreaming
  msError,               \* state error is non-null
  msStreamRef,           \* part_005: the stream streamRef.current holds, 0 for null
  msStopSees,            \* use-media-stream.ts: the stream seen by the stopStream that the
                         \* memoized startStream closes over, 0 for null
  msCalls,               \* startStream calls, each with the stopStream it closes over
  msTracks,              \* the live tracks of each stream acquired, in acquisition order
  msOnEnded              \* for each stream, the stream seen by the stopStream of its onended

mediaVars == <<msHook, msDevice, msStream, msIsStreaming, msError, msStreamRef,
               msStopSees, msCalls, msTracks, msOnEnded>>

\* useWebSpeech on its own
VARIABLES
  wsIsListening,         \* state isListening
  wsLanguage,            \* the language prop
  wsRendered,            \* isListening and language of the latest render: what the
                         \* startListening and stopListening in use close over
  wsHandler,             \* the isListening the registered onend closes over
  wsLang,                \* recognition.lang
  wsRecognition,         \* the recognition: "idle", "running" or "stopping"
  wsCalls,               \* startListening and stopListening calls so far
  wsRestarts             \* recognition.start() calls made by onend so far

speechVars == <<wsIsListening, wsLanguage, wsRendered, wsHandler, wsLang,
                wsRecognition, wsCalls, wsRestarts>>

(***************************************************************************)
(* translateText (src/utils/translator.ts)                                 *)
(***************************************************************************)
\* line 11: if (!text || !text.trim()) return '';
TranslateSkips(text) == ~Truthy(text) \/ ~Truthy(Trim(text))

\* line 26: return response.text?.trim() || '';
TranslateOnSuccess(resp) == IF resp = NoText THEN <<>> ELSE Trim(resp)

\* the catch block leaves translateText by a normal return
TranslateCatchPc == "returned"

\* mutant: the fallback returns the trimmed text
TranslateOnFailureTrimmed(text) == Trim(text)

\* line 29: return text;  (fallback to the original text on failure)
TranslateOnFailure(text) == text


TTInit ==
  /\ ttPc = "idle"
  /\ ttText = <<>>
  /\ ttResult = <<>>
  /\ ttRequests = 0
  /\ ttFailed = FALSE
  /\ ttCalls = 0

\* the caller invokes translateText(text, ...): runs up to the first await
TTCall(text) ==
  /\ ttPc \in {"idle", "returned"}
  /\ ttCalls < MaxCalls
  /\ ttCalls' = ttCalls + 1
  /\ ttText' = text
  /\ ttFailed' = FALSE
  /\ IF TranslateSkips(text)
       THEN /\ ttPc' = "returned"
            /\ ttResult' = <<>>
            /\ ttRequests' = 0
       ELSE /\ ttPc' = "awaiting"
            /\ ttResult' = <<>>
            /\ ttRequests' = 1
  /\ UNCHANGED <<pipeVars, liveVars, playVars, mediaVars, speechVars>>

\* ai.models.generateContent resolves with a response
TTResolve(resp) ==
  /\ ttPc = "awaiting"
  /\ ttPc' = "returned"
  /\ ttResult' = TranslateOnSuccess(resp)
  /\ UNCHANGED <<ttText, ttRequests, ttFailed, ttCalls>>
  /\ UNCHANGED <<pipeVars, liveVars, playVars, mediaVars, speechVars>>

\* ai.models.generateContent rejects: the catch block runs
TTReject ==
  /\ ttPc = "awaiting"
  /\ ttPc' = TranslateCatchPc
  /\ ttResult' = TranslateOnFailure(ttText)
  /\ ttFailed' = TRUE
  /\ UNCHANGED <<ttText, ttRequests, ttCalls>>
  /\ UNCHANGED <<pipeVars, liveVars, playVars, mediaVars, speechVars>>

TTNext ==
  \/ \E text \in Texts : TTCall(text)
  \/ \E resp \in Texts \cup {NoText} : TTResolve(resp)
  \/ TTReject


(***************************************************************************)
(* The hybrid pipeline: App (src/components/AudioVisualizer.tsx 543-712),  *)
(* useFlashTranscriber (src/hooks/use-flash-transcriber.ts 187-343),       *)
(* useLiveApi in TTS mode (src/unnamed/part_002), useMediaStream           *)
(* (src/unnamed/part_005) and useWebSpeech (src/hooks/use-web-speech.ts).  *)
(***************************************************************************)
\* external inputs in one behaviour: connect clicks, recorders started, blobs
\* delivered and final speech results, counted together
MaxInputs == 4

DISCONNECTED == "DISCONNECTED"
CONNECTING == "CONNECTING"
CONNECTED == "CONNECTED"
ERROR == "ERROR"

ConnectionState == {DISCONNECTED, CONNECTING, CONNECTED, ERROR}

\* AudioDevice.type values the model selects; "none" is selectedDevice undefined
DeviceTypes == {"microphone", "zoom"}

\* e.data.size of a delivered blob: 0, 1..99, >= 100
BlobSizes == {"empty", "tiny", "big"}

\* texts a remote call or the speech engine answers with in the pipeline:
\* empty, whitespace only, and speech padded with whitespace
PipeTexts == {<<>>, <<" ">>, <<"a", " ">>}



\* a transcription, translation or send has failed so far
SomethingFailed ==
  \/ \E i \in DOMAIN chunks : chunks[i].st = "failed"
  \/ \E k \in DOMAIN transcripts : transcripts[k].trFailed \/ transcripts[k].sendFailed

\* inputs consumed so far
Inputs == connects + sessions + Len(chunks) + speechN

PipeInit ==
  /\ apiKey \in BOOLEAN
  /\ selectedDevice = "none"
  /\ stream = FALSE
  /\ isStreaming = FALSE
  /\ connecting = <<>>
  /\ connects = 0
  /\ connectionState = DISCONNECTED
  /\ sessionRef = FALSE
  /\ unopened = 0
  /\ opened = 0
  /\ isListening = FALSE
  /\ speechN = 0
  /\ timer = FALSE
  /\ recState = "none"
  /\ recSess = 0
  /\ recConn = FALSE
  /\ sessions = 0
  /\ flushing = {}
  /\ chunks = <<>>
  /\ transcripts = <<>>
  /\ chunkError = FALSE

\* AudioVisualizer.tsx 649: stream: selectedDevice?.type !== 'microphone' ? stream : null
FlashStream(dev, strm) == IF dev # "microphone" THEN strm ELSE FALSE

\* AudioVisualizer.tsx 640: if (selectedDevice?.type === 'microphone')
SpeechForwards(dev) == dev = "microphone"


(***************************************************************************)
(* useFlashTranscriber: the recorder effect (lines 237-340)                *)
(***************************************************************************)
\* The effect's dependencies are [stream, processAudioChunk].  When they
\* change React runs the previous cleanup (lines 332-339: clearTimeout, stop
\* a recorder that is not inactive) and then the effect body (lines 239-330:
\* return unless the stream is usable, stop a recorder that is not inactive,
\* arm the 250 ms timer).  MediaRecorder.stop() queues a last dataavailable
\* event for the stopped recorder, whose handler stays attached.
\* A stream useMediaStream exposes is always active with a live audio track
\* (its tracks are stopped in the same call that sets stream to null), so the
\* validations of lines 239-248 and 259-270 reduce to "the prop is non-null".
EffectStops(old, new, rerun, rec) == rerun /\ (old \/ new) /\ rec = "recording"

Rerender(dev2, strm2, depsChanged) ==
  LET old == FlashStream(selectedDevice, stream)
      new == FlashStream(dev2, strm2)
      rerun == depsChanged \/ old # new
      stops == EffectStops(old, new, rerun, recState)
  IN  /\ timer' = IF rerun THEN new ELSE timer
      /\ recState' = IF stops THEN "inactive" ELSE recState
      /\ flushing' = IF stops
                       THEN flushing \cup {[sess |-> recSess, conn |-> recConn]}
                       ELSE flushing
      /\ UNCHANGED <<recSess, recConn, sessions>>

\* startRecording (lines 257-327), run by the timer
TimerFire(ok) ==
  /\ timer
  /\ ok => Inputs < MaxInputs
  /\ timer' = FALSE
  /\ IF ok
       THEN /\ recState' = "recording"
            /\ sessions' = sessions + 1
            /\ recSess' = sessions + 1
            /\ recConn' = (connectionState = CONNECTED)
       ELSE \* recorder.start threw (lines 318-321): the ref holds an inactive recorder
            /\ recState' = "inactive"
            /\ UNCHANGED <<sessions, recSess, recConn>>
  /\ UNCHANGED <<apiKey, selectedDevice, stream, isStreaming, connecting, connects,
                 connectionState, sessionRef, unopened, opened, isListening, speechN,
                 flushing, chunks, transcripts, chunkError>>
  /\ UNCHANGED <<ttVars, liveVars, playVars, mediaVars, speechVars>>

(***************************************************************************)
(* processAudioChunk (lines 195-235) and recorder.ondataavailable (304-308)*)
(***************************************************************************)
\* mutant: a circuit breaker that ignores blobs once a step has failed
ChunkStartHaltsAfterFailure(size, key) ==
  IF size = "empty" THEN "ignored"
  ELSE IF size = "tiny" \/ ~key \/ SomethingFailed THEN "dropped"
  ELSE "encoding"

\* line 305: if (e.data.size > 0); line 197: if (blob.size < 100) return;
\* line 201: if (!apiKey) return; otherwise blobToBase64 is awaited
ChunkStart(size, key) ==
  IF size = "empty" THEN "ignored"
  ELSE IF size = "tiny" THEN "dropped"
  ELSE IF ~key THEN "dropped"
  ELSE "encoding"

\* afterFail records that a step had already failed when the blob arrived
NewChunk(sess, conn, size) ==
  [sess |-> sess, conn |-> conn, size |-> size, st |-> ChunkStart(size, apiKey),
   reqs |-> 0, text |-> <<>>, afterFail |-> SomethingFailed]

\* line 228: const text = response.text?.trim();
TranscribedText(resp) == IF resp = NoText THEN <<>> ELSE Trim(resp)

\* mutant: a length test that loses one-character transcripts
EmitsTranscriptLong(text) == Len(text) > 1

\* line 229: if (text)
EmitsTranscript(text) == Truthy(text)

\* mutant: the catch block rethrows
TranscribeCatchRethrows == TRUE

\* lines 232-234: the catch block swallows the error
TranscribeCatchRaises == FALSE

\* AudioVisualizer.tsx 598: if (!text.trim()) return;
ProcessSkips(text) == ~Truthy(Trim(text))

\* one entry of a transcript's log
Event(ev, text) == [ev |-> ev, text |-> text]

\* lines 601-606: setMessages appends the 'user' message with the original text
LogOriginal(text) == <<Event("user", text)>>

\* processTranscript (AudioVisualizer.tsx 597-627) up to its first await:
\* the transcript record as it stands when translateText has been called
\* (log: what the call has done so far, in order: the messages it appended
\* with setMessages, the translation it requested, the text it sent)
ProcessTranscript(src, chunk, text, conn, afterFail) ==
  LET base == [src |-> src, chunk |-> chunk, text |-> text, conn |-> conn,
               afterFail |-> afterFail,
               st |-> "skipped", trReqs |-> 0, trFailed |-> FALSE,
               translated |-> <<>>, sends |-> 0, sendFailed |-> FALSE,
               log |-> <<>>]
      logged == [base EXCEPT !.log = LogOriginal(text)]
  IN  IF ProcessSkips(text) THEN base
      ELSE IF TranslateSkips(text) THEN [logged EXCEPT !.st = "done"]
      ELSE [logged EXCEPT !.st = "translating", !.trReqs = 1,
                          !.log = Append(@, Event("request", text))]

\* line 230: onTranscript(text)
HandOver(trs, rec) == Append(trs, rec)

Deliver(sess, conn, size) ==
  chunks' = Append(chunks, NewChunk(sess, conn, size))

\* a timeslice elapsed: the running recorder fires dataavailable
DataAvailable(size) ==
  /\ recState = "recording"
  /\ Inputs < MaxInputs
  /\ Deliver(recSess, recConn, size)
  /\ UNCHANGED <<apiKey, selectedDevice, stream, isStreaming, connecting, connects,
                 connectionState, sessionRef, unopened, opened, isListening, speechN,
                 timer, recState, recSess, recConn, sessions, flushing,
                 transcripts, chunkError>>
  /\ UNCHANGED <<ttVars, liveVars, playVars, mediaVars, speechVars>>

\* the last dataavailable of a recorder that was stopped
FinalData(f, size) ==
  /\ f \in flushing
  /\ Inputs < MaxInputs
  /\ flushing' = flushing \ {f}
  /\ Deliver(f.sess, f.conn, size)
  /\ UNCHANGED <<apiKey, selectedDevice, stream, isStreaming, connecting, connects,
                 connectionState, sessionRef, unopened, opened, isListening, speechN,
                 timer, recState, recSess, recConn, sessions,
                 transcripts, chunkError>>
  /\ UNCHANGED <<ttVars, liveVars, playVars, mediaVars, speechVars>>

\* blobToBase64 settles (line 204); on success generateContent is called (215)
EncodeDone(i, ok) ==
  /\ i \in DOMAIN chunks
  /\ chunks[i].st = "encoding"
  /\ chunks' = [chunks EXCEPT ![i] =
                  IF ok THEN [@ EXCEPT !.st = "requested", !.reqs = @ + 1]
                        ELSE [@ EXCEPT !.st = "failed"]]
  /\ chunkError' = (chunkError \/ (~ok /\ TranscribeCatchRaises))
  /\ UNCHANGED <<apiKey, selectedDevice, stream, isStreaming, connecting, connects,
                 connectionState, sessionRef, unopened, opened, isListening, speechN,
                 timer, recState, recSess, recConn, sessions, flushing, transcripts>>
  /\ UNCHANGED <<ttVars, liveVars, playVars, mediaVars, speechVars>>

\* generateContent resolves (lines 215-231)
TranscribeResolve(i, resp) ==
  /\ i \in DOMAIN chunks
  /\ chunks[i].st = "requested"
  /\ LET text == TranscribedText(resp)
     IN  /\ chunks' = [chunks EXCEPT ![i] = [@ EXCEPT !.st = "done", !.text = text]]
         /\ transcripts' =
              IF EmitsTranscript(text)
                THEN HandOver(transcripts,
                              ProcessTranscript("flash", i, text, chunks[i].conn,
                                                chunks[i].afterFail))
                ELSE transcripts
  /\ UNCHANGED <<apiKey, selectedDevice, stream, isStreaming, connecting, connects,
                 connectionState, sessionRef, unopened, opened, isListening, speechN,
                 timer, recState, recSess, recConn, sessions, flushing, chunkError>>
  /\ UNCHANGED <<ttVars, liveVars, playVars, mediaVars, speechVars>>

\* generateContent rejects: the catch block (lines 232-234)
TranscribeReject(i) ==
  /\ i \in DOMAIN chunks
  /\ chunks[i].st = "requested"
  /\ chunks' = [chunks EXCEPT ![i] = [@ EXCEPT !.st = "failed"]]
  /\ chunkError' = (chunkError \/ TranscribeCatchRaises)
  /\ UNCHANGED <<apiKey, selectedDevice, stream, isStreaming, connecting, connects,
                 connectionState, sessionRef, unopened, opened, isListening, speechN,
                 timer, recState, recSess, recConn, sessions, flushing, transcripts>>
  /\ UNCHANGED <<ttVars, liveVars, playVars, mediaVars, speechVars>>


(***************************************************************************)
(* processTranscript after the await of translateText (AudioVisualizer.tsx *)
(* 610-626) and sendText (src/unnamed/part_002 190-195)                    *)
(***************************************************************************)
\* line 621: if (translated && connectionState === ConnectionState.CONNECTED)
\* connectionState is the value the closure of processTranscript captured;
\* conn is the outcome of that comparison
SpeaksTranslation(translated, conn) == Truthy(translated) /\ conn

\* part_002 line 191: if (sessionPromiseRef.current)
SendTextAwaits(ref) == ref

\* lines 610-623: translateText returned `translated`
AfterTranslate(t, translated, failed, ref) ==
  [t EXCEPT !.translated = translated,
            !.trFailed = failed,
            !.log = Append(@, Event("eburon", translated)),
            !.st = IF SpeaksTranslation(translated, t.conn) /\ SendTextAwaits(ref)
                     THEN "sending" ELSE "done"]

\* mutant: the failed translation is requested again
AfterTranslateFailureRetry(t, ref) ==
  [t EXCEPT !.trFailed = TRUE, !.trReqs = @ + 1]

\* the remote translation rejected: translateText's catch returns the fallback
\* (translator.ts 27-30); were it to throw, processTranscript's catch (624-626)
\* would end the transcript without a translation
AfterTranslateFailure(t, ref) ==
  IF TranslateCatchPc = "returned"
    THEN AfterTranslate(t, TranslateOnFailure(t.text), TRUE, ref)
    ELSE [t EXCEPT !.trFailed = TRUE, !.st = "done"]

\* part_002 192-193: the session promise settled and session.send ran (or threw);
\* a throw lands in processTranscript's catch (AudioVisualizer.tsx 624-626)
AfterSend(t, outcome) ==
  [t EXCEPT !.st = "done",
            !.sends = IF outcome = "rejected" THEN @ ELSE @ + 1,
            !.log = IF outcome = "rejected" THEN @
                    ELSE Append(@, Event("send", t.translated)),
            !.sendFailed = outcome # "sent"]

SendOutcomes == {"sent", "threw", "rejected"}

TranslateResolve(k, resp) ==
  /\ k \in DOMAIN transcripts
  /\ transcripts[k].st = "translating"
  /\ transcripts' = [transcripts EXCEPT ![k] =
                       AfterTranslate(@, TranslateOnSuccess(resp), FALSE, sessionRef)]
  /\ UNCHANGED <<apiKey, selectedDevice, stream, isStreaming, connecting, connects,
                 connectionState, sessionRef, unopened, opened, isListening, speechN,
                 timer, recState, recSess, recConn, sessions, flushing, chunks,
                 chunkError>>
  /\ UNCHANGED <<ttVars, liveVars, playVars, mediaVars, speechVars>>

TranslateReject(k) ==
  /\ k \in DOMAIN transcripts
  /\ transcripts[k].st = "translating"
  /\ transcripts' = [transcripts EXCEPT ![k] = AfterTranslateFailure(@, sessionRef)]
  /\ UNCHANGED <<apiKey, selectedDevice, stream, isStreaming, connecting, connects,
                 connectionState, sessionRef, unopened, opened, isListening, speechN,
                 timer, recState, recSess, recConn, sessions, flushing, chunks,
                 chunkError>>
  /\ UNCHANGED <<ttVars, liveVars, playVars, mediaVars, speechVars>>

SendDone(k, outcome) ==
  /\ k \in DOMAIN transcripts
  /\ transcripts[k].st = "sending"
  /\ transcripts' = [transcripts EXCEPT ![k] = AfterSend(@, outcome)]
  /\ UNCHANGED <<apiKey, selectedDevice, stream, isStreaming, connecting, connects,
                 connectionState, sessionRef, unopened, opened, isListening, speechN,
                 timer, recState, recSess, recConn, sessions, flushing, chunks,
                 chunkError>>
  /\ UNCHANGED <<ttVars, liveVars, playVars, mediaVars, speechVars>>

(***************************************************************************)
(* useWebSpeech.onresult (use-web-speech.ts 47-68) with the App's          *)
(* onFinalTranscript (AudioVisualizer.tsx 638-643)                         *)
(***************************************************************************)
\* a final result `raw` (non-empty, line 59) arrives; the callback ref is
\* refreshed after every render (lines 29-31), so it sees the current device
\* and the current connectionState
SpeechFinal(raw) ==
  /\ isListening
  /\ Inputs < MaxInputs
  /\ Truthy(raw)
  /\ speechN' = speechN + 1
  /\ transcripts' =
       IF SpeechForwards(selectedDevice)
         THEN HandOver(transcripts,
                       ProcessTranscript("speech", 0, Trim(raw),
                                         connectionState = CONNECTED, SomethingFailed))
         ELSE transcripts
  /\ UNCHANGED <<apiKey, selectedDevice, stream, isStreaming, connecting, connects,
                 connectionState, sessionRef, unopened, opened, isListening,
                 timer, recState, recSess, recConn, sessions, flushing, chunks,
                 chunkError>>
  /\ UNCHANGED <<ttVars, liveVars, playVars, mediaVars, speechVars>>

(***************************************************************************)
(* App: device selection, connect and disconnect (AudioVisualizer.tsx      *)
(* 657-684, 828-836), useMediaStream (part_005), useLiveApi (part_002)     *)
(***************************************************************************)
\* the DeviceSelector is rendered while !isConnected (line 828)
SelectDevice(d) ==
  /\ connectionState # CONNECTED
  /\ d # selectedDevice
  /\ selectedDevice' = d
  /\ Rerender(d, stream, FALSE)
  /\ UNCHANGED <<apiKey, stream, isStreaming, connecting, connects,
                 connectionState, sessionRef, unopened, opened, isListening, speechN,
                 chunks, transcripts, chunkError>>
  /\ UNCHANGED <<ttVars, liveVars, playVars, mediaVars, speechVars>>

\* the language selects are enabled while !isConnected (lines 766-786); a new
\* language gives processTranscript and processAudioChunk a new identity
SetLanguage ==
  /\ connectionState # CONNECTED
  /\ Rerender(selectedDevice, stream, TRUE)
  /\ UNCHANGED <<apiKey, selectedDevice, stream, isStreaming, connecting, connects,
                 connectionState, sessionRef, unopened, opened, isListening, speechN,
                 chunks, transcripts, chunkError>>
  /\ UNCHANGED <<ttVars, liveVars, playVars, mediaVars, speechVars>>

\* handleToggleConnection, else branch (lines 680-683); the button is disabled
\* while CONNECTING (line 992).  connect() runs up to `await startStream()`.
ClickConnect ==
  /\ connectionState \notin {CONNECTED, CONNECTING}
  /\ ~isStreaming
  /\ Inputs < MaxInputs
  /\ connects' = connects + 1
  /\ connecting' = Append(connecting, selectedDevice)
  /\ UNCHANGED <<apiKey, selectedDevice, stream, isStreaming,
                 connectionState, sessionRef, unopened, opened, isListening, speechN,
                 timer, recState, recSess, recConn, sessions, flushing, chunks,
                 transcripts, chunkError>>
  /\ UNCHANGED <<ttVars, liveVars, playVars, mediaVars, speechVars>>

\* part_002 connect (lines 67-188): the state connectLive() leaves behind
ConnectLiveState(key) == IF key THEN CONNECTING ELSE ERROR

\* startStream settles (part_005 136-148; it never rejects), then connect()
\* continues: connectLive() and, for the device the click captured,
\* startWebSpeech() (AudioVisualizer.tsx 662-668)
StartStreamDone(i, ok) ==
  /\ i \in DOMAIN connecting
  /\ LET dev == connecting[i]
         conn2 == ConnectLiveState(apiKey)
         strm2 == IF ok THEN TRUE ELSE stream
     IN  /\ connecting' = SubSeq(connecting, 1, i - 1) \o
                          SubSeq(connecting, i + 1, Len(connecting))
         /\ stream' = strm2
         /\ isStreaming' = ok
         /\ connectionState' = conn2
         /\ sessionRef' = IF apiKey THEN TRUE ELSE sessionRef
         /\ unopened' = IF apiKey THEN unopened + 1 ELSE unopened
         /\ isListening' = IF dev = "microphone" THEN TRUE ELSE isListening
         /\ Rerender(selectedDevice, strm2, conn2 # connectionState \/ (ok /\ stream))
  /\ UNCHANGED <<apiKey, selectedDevice, connects, opened, speechN,
                 chunks, transcripts, chunkError>>
  /\ UNCHANGED <<ttVars, liveVars, playVars, mediaVars, speechVars>>

\* handleToggleConnection, then branch: disconnect() (lines 671-675) =
\* stopStream (part_005 13-20), disconnectLive (part_002 62-65), stopWebSpeech
ClickDisconnect ==
  /\ connectionState = CONNECTED \/ isStreaming
  /\ connectionState # CONNECTING
  /\ stream' = FALSE
  /\ isStreaming' = FALSE
  /\ connectionState' = DISCONNECTED
  /\ sessionRef' = FALSE
  /\ isListening' = FALSE
  /\ Rerender(selectedDevice, FALSE, connectionState # DISCONNECTED)
  /\ UNCHANGED <<apiKey, selectedDevice, connecting, connects, unopened, opened,
                 speechN, chunks, transcripts, chunkError>>
  /\ UNCHANGED <<ttVars, liveVars, playVars, mediaVars, speechVars>>

\* a track of the stream ends: track.onended -> stopStream (part_005 129-134)
TrackEnded ==
  /\ stream
  /\ stream' = FALSE
  /\ isStreaming' = FALSE
  /\ Rerender(selectedDevice, FALSE, FALSE)
  /\ UNCHANGED <<apiKey, selectedDevice, connecting, connects, connectionState,
                 sessionRef, unopened, opened, isListening, speechN,
                 chunks, transcripts, chunkError>>
  /\ UNCHANGED <<ttVars, liveVars, playVars, mediaVars, speechVars>>

\* callbacks of a live session (part_002 120-177); no session is ever closed
\* by the hook, so the callbacks of every session created may fire
LiveOpen ==
  /\ unopened > 0
  /\ unopened' = unopened - 1
  /\ opened' = opened + 1
  /\ connectionState' = CONNECTED
  /\ Rerender(selectedDevice, stream, connectionState # CONNECTED)
  /\ UNCHANGED <<apiKey, selectedDevice, stream, isStreaming, connecting, connects,
                 sessionRef, isListening, speechN, chunks, transcripts, chunkError>>
  /\ UNCHANGED <<ttVars, liveVars, playVars, mediaVars, speechVars>>

LiveError ==
  /\ unopened + opened > 0
  /\ connectionState' = ERROR
  /\ Rerender(selectedDevice, stream, connectionState # ERROR)
  /\ UNCHANGED <<apiKey, selectedDevice, stream, isStreaming, connecting, connects,
                 sessionRef, unopened, opened, isListening, speechN,
                 chunks, transcripts, chunkError>>
  /\ UNCHANGED <<ttVars, liveVars, playVars, mediaVars, speechVars>>

LiveClose(wasOpen) ==
  /\ IF wasOpen THEN opened > 0 ELSE unopened > 0
  /\ opened' = IF wasOpen THEN opened - 1 ELSE opened
  /\ unopened' = IF wasOpen THEN unopened ELSE unopened - 1
  /\ connectionState' = DISCONNECTED
  /\ Rerender(selectedDevice, stream, connectionState # DISCONNECTED)
  /\ UNCHANGED <<apiKey, selectedDevice, stream, isStreaming, connecting, connects,
                 sessionRef, isListening, speechN, chunks, transcripts, chunkError>>
  /\ UNCHANGED <<ttVars, liveVars, playVars, mediaVars, speechVars>>

PipeNext ==
  \/ \E d \in DeviceTypes : SelectDevice(d)
  \/ SetLanguage
  \/ ClickConnect
  \/ \E i \in DOMAIN connecting, ok \in BOOLEAN : StartStreamDone(i, ok)
  \/ ClickDisconnect
  \/ TrackEnded
  \/ LiveOpen
  \/ LiveError
  \/ \E wasOpen \in BOOLEAN : LiveClose(wasOpen)
  \/ \E ok \in BOOLEAN : TimerFire(ok)
  \/ \E size \in BlobSizes : DataAvailable(size)
  \/ \E f \in flushing, size \in BlobSizes : FinalData(f, size)
  \/ \E i \in DOMAIN chunks, ok \in BOOLEAN : EncodeDone(i, ok)
  \/ \E i \in DOMAIN chunks, resp \in PipeTexts \cup {NoText} : TranscribeResolve(i, resp)
  \/ \E i \in DOMAIN chunks : TranscribeReject(i)
  \/ \E raw \in PipeTexts : SpeechFinal(raw)

\* the steps downstream of the hand-over
DownNext ==
  \/ \E k \in DOMAIN transcripts, resp \in PipeTexts \cup {NoText} :
        TranslateResolve(k, resp)
  \/ \E k \in DOMAIN transcripts : TranslateReject(k)
  \/ \E k \in DOMAIN transcripts, o \in SendOutcomes : SendDone(k, o)

\* one uninterrupted session: connect, capture and the whole pipeline
SteadyNext ==
  \/ \E d \in DeviceTypes : SelectDevice(d)
  \/ ClickConnect
  \/ \E i \in DOMAIN connecting, ok \in BOOLEAN : StartStreamDone(i, ok)
  \/ LiveOpen
  \/ \E ok \in BOOLEAN : TimerFire(ok)
  \/ \E size \in BlobSizes : DataAvailable(size)
  \/ \E i \in DOMAIN chunks, ok \in BOOLEAN : EncodeDone(i, ok)
  \/ \E i \in DOMAIN chunks, resp \in PipeTexts \cup {NoText} : TranscribeResolve(i, resp)
  \/ \E i \in DOMAIN chunks : TranscribeReject(i)
  \/ \E raw \in PipeTexts : SpeechFinal(raw)
  \/ DownNext

(***************************************************************************)
(* The streaming session: useLiveApi of src/unnamed/part_003 as the App of *)
(* src/App.tsx uses it.  A connect() call runs on the closure of the       *)
(* render in which the button was clicked, so the session it creates keeps *)
(* the audioDevice and enableAudioInput of that render.                    *)
(***************************************************************************)
\* connect() calls of one run
MaxLiveCalls == 2

\* audio frames and server messages of one run
MaxLiveInputs == 3

\* the part a server message carries: model audio, an input transcription
\* or the end of the turn
MessageParts == {"audio", "input", "turn"}

\* outcomes of the stream acquisition (part_003 113-147)
Acquisitions == {"ok", "rejected", "noaudio"}

\* App.tsx 37 and 73: enableAudioInput: !isHybridMode
EnableAudioInput(dev) == dev # "microphone"

\* mutant: the frame is sent whatever the mode
SendsAudioAlways(enable) == TRUE

\* part_003 310: if (enableAudioInput) { ... sendRealtimeInput ... }
SendsAudio(enable) == enable

\* part_003 272: if (enableAudioInput) { ... onTranscriptUpdate ... }
ReportsInput(enable) == enable

\* inputs consumed so far
LiveInputs == liveFrames + liveMessages + liveTexts

LiveInit ==
  /\ liveTexts = 0
  /\ audioDevice = "none"
  /\ liveKey \in BOOLEAN
  /\ liveState = DISCONNECTED
  /\ liveError = FALSE
  /\ audioContextRef = FALSE
  /\ outputAudioContextRef = FALSE
  /\ mediaStreamRef = 0
  /\ processorRef = 0
  /\ sessionPromiseRef = 0
  /\ liveProcessors = {}
  /\ liveStreams = {}
  /\ liveCalls = <<>>
  /\ liveSessions = <<>>
  /\ liveFrames = 0
  /\ liveMessages = 0
  /\ livePlayed = 0

\* cleanupAudio (part_003 35-56): releases what the refs hold
\* (ended: streams whose tracks have ended by themselves)
CleanupAudio(ended) ==
  /\ liveProcessors' = liveProcessors \ {processorRef}
  /\ processorRef' = 0
  /\ liveStreams' = (liveStreams \ {mediaStreamRef}) \ ended
  /\ mediaStreamRef' = 0
  /\ audioContextRef' = FALSE
  /\ outputAudioContextRef' = FALSE

\* the catch block of connect (part_003 323-328)
ConnectCatch ==
  /\ liveState' = ERROR
  /\ liveError' = TRUE
  /\ CleanupAudio({})

\* the device selector of App.tsx (264-276), rendered while not connected
SelectAudioDevice(d) ==
  /\ liveState # CONNECTED
  /\ d # audioDevice
  /\ audioDevice' = d
  /\ UNCHANGED <<liveTexts, liveKey, liveState, liveError, audioContextRef, outputAudioContextRef,
                 mediaStreamRef, processorRef, sessionPromiseRef, liveProcessors,
                 liveStreams, liveCalls, liveSessions, liveFrames, liveMessages,
                 livePlayed>>
  /\ UNCHANGED <<ttVars, pipeVars, playVars, mediaVars, speechVars>>

\* connect() up to its first await (part_003 95-142); the button of App.tsx
\* (165-173, 423-424) calls it when the state is neither CONNECTED nor CONNECTING
StreamConnect ==
  /\ liveState \notin {CONNECTED, CONNECTING}
  /\ IF liveKey
       THEN /\ Len(liveCalls) < MaxLiveCalls
            /\ liveError' = FALSE
            /\ liveState' = CONNECTING
            /\ audioContextRef' = TRUE
            /\ outputAudioContextRef' = TRUE
            /\ liveCalls' = Append(liveCalls,
                 [dev |-> audioDevice, enable |-> EnableAudioInput(audioDevice),
                  st |-> "acquiring"])
            /\ UNCHANGED <<mediaStreamRef, processorRef, liveProcessors, liveStreams>>
       ELSE /\ ConnectCatch
            /\ UNCHANGED liveCalls
  /\ UNCHANGED <<liveTexts, audioDevice, liveKey, sessionPromiseRef, liveSessions, liveFrames,
                 liveMessages, livePlayed>>
  /\ UNCHANGED <<ttVars, pipeVars, playVars, mediaVars, speechVars>>

\* the session ai.live.connect creates (part_003 208-295)
NewSession(c) ==
  [call |-> c, enable |-> liveCalls[c].enable, promise |-> "pending",
   ws |-> "connecting", captured |-> <<>>, queued |-> <<>>, sent |-> <<>>,
   heard |-> 0, updates |-> 0, texts |-> 0, textq |-> 0, textFailed |-> 0]

\* connect() after the await of the stream (part_003 113-328)
StreamAcquired(c, outcome) ==
  /\ c \in DOMAIN liveCalls
  /\ liveCalls[c].st = "acquiring"
  /\ IF outcome = "ok" /\ audioContextRef
       THEN LET s == Len(liveSessions) + 1
            IN  /\ mediaStreamRef' = c
                /\ liveStreams' = liveStreams \cup {c}
                /\ processorRef' = s
                /\ liveProcessors' = liveProcessors \cup {s}
                /\ liveSessions' = Append(liveSessions, NewSession(c))
                /\ sessionPromiseRef' = s
                /\ liveCalls' = [liveCalls EXCEPT ![c].st = "created"]
                /\ UNCHANGED <<liveState, liveError, audioContextRef,
                               outputAudioContextRef>>
       ELSE \* the acquisition rejected (113-142), the stream has no audio
            \* track (144-147), or audioContextRef.current is null at line 159
            /\ ConnectCatch
            /\ liveCalls' = [liveCalls EXCEPT ![c].st = "failed"]
            /\ UNCHANGED <<liveSessions, sessionPromiseRef>>
  /\ UNCHANGED <<liveTexts, audioDevice, liveKey, liveFrames, liveMessages, livePlayed>>
  /\ UNCHANGED <<ttVars, pipeVars, playVars, mediaVars, speechVars>>

\* the promise of ai.live.connect resolves with the session: the callbacks
\* registered by sessionPromise.then (312-319) run in registration order
SessionResolve(s) ==
  /\ s \in DOMAIN liveSessions
  /\ liveSessions[s].promise = "pending"
  /\ liveSessions[s].ws = "open"
  /\ liveSessions' = [liveSessions EXCEPT ![s].promise = "resolved",
                                          ![s].sent = @ \o liveSessions[s].queued,
                                          ![s].queued = <<>>,
                                          ![s].texts = @ + liveSessions[s].textq,
                                          ![s].textq = 0]
  /\ UNCHANGED <<liveTexts, audioDevice, liveKey, liveState, liveError, audioContextRef,
                 outputAudioContextRef, mediaStreamRef, processorRef,
                 sessionPromiseRef, liveProcessors, liveStreams, liveCalls,
                 liveFrames, liveMessages, livePlayed>>
  /\ UNCHANGED <<ttVars, pipeVars, playVars, mediaVars, speechVars>>

\* the promise of ai.live.connect rejects: nothing awaits it inside connect
SessionReject(s) ==
  /\ s \in DOMAIN liveSessions
  /\ liveSessions[s].promise = "pending"
  /\ liveSessions[s].ws # "open"
  /\ liveSessions' = [liveSessions EXCEPT ![s].promise = "rejected",
                                          ![s].ws = "closed",
                                          ![s].textFailed = @ + liveSessions[s].textq,
                                          ![s].textq = 0]
  /\ UNCHANGED <<liveTexts, audioDevice, liveKey, liveState, liveError, audioContextRef,
                 outputAudioContextRef, mediaStreamRef, processorRef,
                 sessionPromiseRef, liveProcessors, liveStreams, liveCalls,
                 liveFrames, liveMessages, livePlayed>>
  /\ UNCHANGED <<ttVars, pipeVars, playVars, mediaVars, speechVars>>

\* callbacks.onopen (part_003 225-228)
SessionOpen(s) ==
  /\ s \in DOMAIN liveSessions
  /\ liveSessions[s].ws = "connecting"
  /\ liveSessions' = [liveSessions EXCEPT ![s].ws = "open"]
  /\ liveState' = CONNECTED
  /\ UNCHANGED <<liveTexts, audioDevice, liveKey, liveError, audioContextRef,
                 outputAudioContextRef, mediaStreamRef, processorRef,
                 sessionPromiseRef, liveProcessors, liveStreams, liveCalls,
                 liveFrames, liveMessages, livePlayed>>
  /\ UNCHANGED <<ttVars, pipeVars, playVars, mediaVars, speechVars>>

\* callbacks.onerror (part_003 283-287)
SessionError(s) ==
  /\ s \in DOMAIN liveSessions
  /\ liveSessions[s].ws # "closed"
  /\ liveState' = ERROR
  /\ liveError' = TRUE
  /\ UNCHANGED <<liveTexts, audioDevice, liveKey, audioContextRef, outputAudioContextRef,
                 mediaStreamRef, processorRef, sessionPromiseRef, liveProcessors,
                 liveStreams, liveCalls, liveSessions, liveFrames, liveMessages,
                 livePlayed>>
  /\ UNCHANGED <<ttVars, pipeVars, playVars, mediaVars, speechVars>>

\* callbacks.onclose (part_003 288-291)
SessionClose(s) ==
  /\ s \in DOMAIN liveSessions
  /\ liveSessions[s].ws # "closed"
  /\ liveSessions' = [liveSessions EXCEPT ![s].ws = "closed"]
  /\ liveState' = DISCONNECTED
  /\ UNCHANGED <<liveTexts, audioDevice, liveKey, liveError, audioContextRef,
                 outputAudioContextRef, mediaStreamRef, processorRef,
                 sessionPromiseRef, liveProcessors, liveStreams, liveCalls,
                 liveFrames, liveMessages, livePlayed>>
  /\ UNCHANGED <<ttVars, pipeVars, playVars, mediaVars, speechVars>>

\* one frame through onaudioprocess of the processor connect() set up for
\* session s (part_003 298-321); a frame is named by its rank in the capture
StreamFrame(x, frame) ==
  IF ~SendsAudio(x.enable) THEN x
  ELSE IF x.promise = "resolved" THEN [x EXCEPT !.sent = Append(@, frame)]
  ELSE IF x.promise = "pending" THEN [x EXCEPT !.queued = Append(@, frame)]
  ELSE x

AudioProcess(s) ==
  /\ s \in liveProcessors
  /\ LiveInputs < MaxLiveInputs
  /\ liveFrames' = liveFrames + 1
  /\ liveSessions' = [liveSessions EXCEPT
       ![s] = StreamFrame([@ EXCEPT !.captured = Append(@, Len(@) + 1)],
                          Len(liveSessions[s].captured) + 1)]
  /\ UNCHANGED <<liveTexts, audioDevice, liveKey, liveState, liveError, audioContextRef,
                 outputAudioContextRef, mediaStreamRef, processorRef,
                 sessionPromiseRef, liveProcessors, liveStreams, liveCalls,
                 liveMessages, livePlayed>>
  /\ UNCHANGED <<ttVars, pipeVars, playVars, mediaVars, speechVars>>

\* updates onmessage reports for one message (part_003 271-281)
InputUpdates(enable, part) ==
  IF ReportsInput(enable) /\ part \in {"input", "turn"} THEN 1 ELSE 0

\* callbacks.onmessage (part_003 229-282)
ServerMessage(s, part) ==
  /\ s \in DOMAIN liveSessions
  /\ liveSessions[s].ws = "open"
  /\ LiveInputs < MaxLiveInputs
  /\ liveMessages' = liveMessages + 1
  /\ livePlayed' = IF part = "audio" /\ outputAudioContextRef
                     THEN livePlayed + 1 ELSE livePlayed
  /\ liveSessions' = [liveSessions EXCEPT
       ![s].heard = IF part \in {"input", "turn"} THEN @ + 1 ELSE @,
       ![s].updates = @ + InputUpdates(liveSessions[s].enable, part)]
  /\ UNCHANGED <<liveTexts, audioDevice, liveKey, liveState, liveError, audioContextRef,
                 outputAudioContextRef, mediaStreamRef, processorRef,
                 sessionPromiseRef, liveProcessors, liveStreams, liveCalls,
                 liveFrames>>
  /\ UNCHANGED <<ttVars, pipeVars, playVars, mediaVars, speechVars>>

\* disconnect() (part_003 58-62)
Disconnect(ended) ==
  /\ liveState' = DISCONNECTED
  /\ CleanupAudio(ended)
  /\ sessionPromiseRef' = 0

\* the button of App.tsx (165-173) while CONNECTED
StreamDisconnect ==
  /\ liveState = CONNECTED
  /\ Disconnect({})
  /\ UNCHANGED <<liveTexts, audioDevice, liveKey, liveError, liveCalls, liveSessions,
                 liveFrames, liveMessages, livePlayed>>
  /\ UNCHANGED <<ttVars, pipeVars, playVars, mediaVars, speechVars>>

\* track.onended of an acquired stream (part_003 151-156)
StreamTrackEnded(c) ==
  /\ c \in liveStreams
  /\ Disconnect({c})
  /\ UNCHANGED <<liveTexts, audioDevice, liveKey, liveError, liveCalls, liveSessions,
                 liveFrames, liveMessages, livePlayed>>
  /\ UNCHANGED <<ttVars, pipeVars, playVars, mediaVars, speechVars>>

\* one text through sendText (part_003 332-339) for the session x the ref
\* holds: session.send runs once the promise has resolved; the await throws
\* if the promise rejected
SendTextTo(x) ==
  IF x.promise = "resolved" THEN [x EXCEPT !.texts = @ + 1]
  ELSE IF x.promise = "pending" THEN [x EXCEPT !.textq = @ + 1]
  ELSE [x EXCEPT !.textFailed = @ + 1]

\* sendText(text) (part_003 332-339)
SendText ==
  /\ LiveInputs < MaxLiveInputs
  /\ liveTexts' = liveTexts + 1
  /\ liveSessions' = IF sessionPromiseRef # 0
                       THEN [liveSessions EXCEPT ![sessionPromiseRef] = SendTextTo(@)]
                       ELSE liveSessions
  /\ UNCHANGED <<audioDevice, liveKey, liveState, liveError, audioContextRef,
                 outputAudioContextRef, mediaStreamRef, processorRef,
                 sessionPromiseRef, liveProcessors, liveStreams, liveCalls,
                 liveFrames, liveMessages, livePlayed>>
  /\ UNCHANGED <<ttVars, pipeVars, playVars, mediaVars, speechVars>>

\* a session from connect to disconnect
LiveNext ==
  \/ \E d \in DeviceTypes : SelectAudioDevice(d)
  \/ StreamConnect
  \/ \E c \in DOMAIN liveCalls, o \in Acquisitions : StreamAcquired(c, o)
  \/ \E s \in DOMAIN liveSessions : SessionResolve(s)
  \/ \E s \in DOMAIN liveSessions : SessionReject(s)
  \/ \E s \in DOMAIN liveSessions : SessionOpen(s)
  \/ \E s \in liveProcessors : AudioProcess(s)
  \/ \E s \in DOMAIN liveSessions, part \in MessageParts : ServerMessage(s, part)
  \/ StreamDisconnect

\* the events that end a session from outside
LiveFaultNext ==
  \/ \E s \in DOMAIN liveSessions : SessionError(s)
  \/ \E s \in DOMAIN liveSessions : SessionClose(s)
  \/ \E c \in liveStreams : StreamTrackEnded(c)

(***************************************************************************)
(* Playback (part_003 229-269).  onmessage is an async function: when the  *)
(* output context is suspended it stops at `await resume()` and goes on in *)
(* a later microtask, with whatever outputAudioContextRef.current and      *)
(* nextStartTimeRef.current hold then.  The lines after the await run      *)
(* without interruption.  An AudioContext is created suspended and starts  *)
(* in a task of its own; the promise of resume() is settled in another.    *)
(***************************************************************************)
\* output contexts created in one run
MaxPlayContexts == 2

\* server messages with audio in one run
MaxPlayMessages == 3

\* the largest currentTime a context reaches
MaxPlayClock == 2

\* audioBuffer.duration of a message
PlayDurations == {1, 2}

PlayInit ==
  /\ playRef = 0
  /\ playState = <<>>
  /\ playClock = <<>>
  /\ nextStartTimeRef = 0
  /\ playWaiting = <<>>
  /\ playStarted = <<>>
  /\ playArrivals = 0

\* part_003 251-254 and 264: the time passed to source.start
StartTime(next, now) == IF next < now THEN now ELSE next

\* part_003 239-265 for one handler h, from p = [next, started]: the lines
\* use outputAudioContextRef.current as it is now; when it is null line 248
\* throws and the catch of 266-268 logs the error
StartBuffer(p, h) ==
  IF playRef = 0 THEN p
  ELSE LET at == StartTime(p.next, playClock[playRef])
       IN  [next |-> at + h.dur,
            started |-> Append(p.started, [msg |-> h.msg, ctx |-> playRef,
                                           at |-> at, dur |-> h.dur])]

\* the handlers hs go on one after the other
RECURSIVE StartAll(_, _)
StartAll(p, hs) ==
  IF hs = <<>> THEN p ELSE StartAll(StartBuffer(p, Head(hs)), Tail(hs))

\* the handlers waiting for resume() of context c, and the others
WaitingFor(c) == SelectSeq(playWaiting, LAMBDA h : h.ctx = c)

WaitingElsewhere(c) == SelectSeq(playWaiting, LAMBDA h : h.ctx # c)

\* connect() creates the output context (part_003 109-110); the context the
\* ref held, if any, is not closed
PlayConnect ==
  /\ Len(playState) < MaxPlayContexts
  /\ playState' = Append(playState, "suspended")
  /\ playClock' = Append(playClock, 0)
  /\ playRef' = Len(playState) + 1
  /\ UNCHANGED <<nextStartTimeRef, playWaiting, playStarted, playArrivals>>
  /\ UNCHANGED <<ttVars, pipeVars, liveVars, mediaVars, speechVars>>

\* cleanupAudio closes the output context (part_003 52-55): its pending
\* resume() promises reject and the handlers end in their catch (266-268)
PlayCleanup ==
  /\ playRef # 0
  /\ playState' = [playState EXCEPT ![playRef] = "closed"]
  /\ playWaiting' = WaitingElsewhere(playRef)
  /\ playRef' = 0
  /\ UNCHANGED <<playClock, nextStartTimeRef, playStarted, playArrivals>>
  /\ UNCHANGED <<ttVars, pipeVars, liveVars, mediaVars, speechVars>>

\* the context created at part_003 110 starts: state becomes 'running'
ContextStarts(c) ==
  /\ c \in DOMAIN playState
  /\ playState[c] = "suspended"
  /\ playState' = [playState EXCEPT ![c] = "running"]
  /\ UNCHANGED <<playRef, playClock, nextStartTimeRef, playWaiting, playStarted,
                 playArrivals>>
  /\ UNCHANGED <<ttVars, pipeVars, liveVars, mediaVars, speechVars>>

\* the promises of resume() on context c resolve, in call order, and the
\* handlers go on after part_003 236
ResumeResolves(c) ==
  /\ c \in DOMAIN playState
  /\ playState[c] # "closed"
  /\ WaitingFor(c) # <<>>
  /\ LET p == StartAll([next |-> nextStartTimeRef, started |-> playStarted],
                       WaitingFor(c))
     IN  /\ nextStartTimeRef' = p.next
         /\ playStarted' = p.started
  /\ playState' = [playState EXCEPT ![c] = "running"]
  /\ playWaiting' = WaitingElsewhere(c)
  /\ UNCHANGED <<playRef, playClock, playArrivals>>
  /\ UNCHANGED <<ttVars, pipeVars, liveVars, mediaVars, speechVars>>

\* callbacks.onmessage for a message with audio (part_003 229-269), up to the
\* await of line 236 when the context is suspended, to the end otherwise
AudioArrives(dur) ==
  /\ playState # <<>>
  /\ playArrivals < MaxPlayMessages
  /\ playArrivals' = playArrivals + 1
  /\ LET h == [msg |-> playArrivals + 1, ctx |-> playRef, dur |-> dur]
     IN  IF playRef # 0 /\ playState[playRef] = "suspended"
           THEN /\ playWaiting' = Append(playWaiting, h)
                /\ UNCHANGED <<nextStartTimeRef, playStarted>>
           ELSE LET p == StartBuffer([next |-> nextStartTimeRef,
                                      started |-> playStarted], h)
                IN  /\ nextStartTimeRef' = p.next
                    /\ playStarted' = p.started
                    /\ UNCHANGED playWaiting
  /\ UNCHANGED <<playRef, playState, playClock>>
  /\ UNCHANGED <<ttVars, pipeVars, liveVars, mediaVars, speechVars>>

\* currentTime of a running context advances
ClockTick(c) ==
  /\ c \in DOMAIN playState
  /\ playState[c] = "running"
  /\ playClock[c] < MaxPlayClock
  /\ playClock' = [playClock EXCEPT ![c] = @ + 1]
  /\ UNCHANGED <<playRef, playState, nextStartTimeRef, playWaiting, playStarted,
                 playArrivals>>
  /\ UNCHANGED <<ttVars, pipeVars, liveVars, mediaVars, speechVars>>

PlayNext ==
  \/ PlayConnect
  \/ PlayCleanup
  \/ \E c \in DOMAIN playState : ContextStarts(c)
  \/ \E c \in DOMAIN playState : ResumeResolves(c)
  \/ \E dur \in PlayDurations : AudioArrives(dur)
  \/ \E c \in DOMAIN playState : ClockTick(c)

(***************************************************************************)
(* useMediaStream: src/unnamed/part_005, which keeps the stream in a ref,  *)
(* and src/hooks/use-media-stream.ts, whose stopStream reads the state     *)
(* `stream` of the render that created it.  In the latter startStream is   *)
(* memoized on [selectedDevice] alone, so the stopStream it calls from     *)
(* track.onended is the one of the render in which the device last changed.*)
(***************************************************************************)
\* startStream calls of one run
MaxStreams == 2

MediaHooks == {"ref", "closure"}

\* the kinds of track a stream may have
StreamTracks == {"audio", "video"}

\* AudioDevice.type (types.ts 31); "none" is selectedDevice undefined
MediaDevices == {"microphone", "system", "zoom", "tab", "window"}

\* settings.displaySurface of the captured video track; "none" is undefined
Surfaces == {"browser", "window", "monitor", "none"}

\* the branch that calls getUserMedia: part_005 74 tests for 'microphone',
\* use-media-stream.ts 44-57 sends everything but 'zoom' and 'system' there
MicrophonePath(hook, dev) ==
  IF hook = "ref" THEN dev = "microphone" ELSE dev \notin {"zoom", "system"}

\* the tracks of the stream an acquisition resolves with: getUserMedia gives
\* an audio track, getDisplayMedia a video track and, if the user shared
\* audio, an audio track
TracksOf(mic, outcome) ==
  IF mic THEN {"audio"}
  ELSE IF outcome = "noaudio" THEN {"video"} ELSE {"audio", "video"}

\* part_005 56 and 86-98: displaySurfaceCheck; "none" is null
ExpectedSurface(dev) ==
  IF dev = "tab" THEN "browser"
  ELSE IF dev \in {"window", "zoom"} THEN "window"
  ELSE IF dev = "system" THEN "monitor"
  ELSE "none"

\* mutant: a surface the browser does not report fails the check too
IsolationFailsUnreported(dev, surface) ==
  ExpectedSurface(dev) # "none" /\ surface # ExpectedSurface(dev)

\* part_005 108: displaySurfaceCheck && settings.displaySurface &&
\* settings.displaySurface !== displaySurfaceCheck
IsolationFails(dev, surface) ==
  /\ ExpectedSurface(dev) # "none"
  /\ surface # "none"
  /\ surface # ExpectedSurface(dev)

\* part_005 124, use-media-stream.ts 68: getAudioTracks().length === 0
NoAudioTrack(tracks) == "audio" \notin tracks

\* startStream throws after acquiring the stream: the isolation check of
\* part_005 (102-121; use-media-stream.ts has none) or the audio track check
StreamRefused(hook, dev, tracks, surface) ==
  \/ hook = "ref" /\ ~MicrophonePath(hook, dev) /\ IsolationFails(dev, surface)
  \/ NoAudioTrack(tracks)

MediaInit ==
  /\ msHook \in MediaHooks
  /\ msDevice = "none"
  /\ msStream = 0
  /\ msIsStreaming = FALSE
  /\ msError = FALSE
  /\ msStreamRef = 0
  /\ msStopSees = 0
  /\ msCalls = <<>>
  /\ msTracks = <<>>
  /\ msOnEnded = <<>>

\* what stopStream reads and writes
MediaState ==
  [stream |-> msStream, isStreaming |-> msIsStreaming, ref |-> msStreamRef,
   tracks |-> msTracks]

\* stream.getTracks().forEach(track => track.stop())
StopTracks(tracks, x) == IF x = 0 THEN tracks ELSE [tracks EXCEPT ![x] = {}]

\* stopStream from state m; sees is the `stream` its closure holds.
\* part_005 13-20: stops the stream of the ref, then always clears the state.
\* use-media-stream.ts 89-95: if (stream) { stop its tracks; clear the state }
StopStream(m, sees) ==
  IF msHook = "ref"
    THEN [stream |-> 0, isStreaming |-> FALSE, ref |-> 0,
          tracks |-> StopTracks(m.tracks, m.ref)]
    ELSE IF sees # 0
           THEN [stream |-> 0, isStreaming |-> FALSE, ref |-> m.ref,
                 tracks |-> StopTracks(m.tracks, sees)]
           ELSE m

SetMediaState(m) ==
  /\ msStream' = m.stream
  /\ msIsStreaming' = m.isStreaming
  /\ msStreamRef' = m.ref
  /\ msTracks' = m.tracks

\* the selectedDevice argument changes: use-media-stream.ts 87 memoizes a new
\* startStream, which closes over the stopStream of this render
MediaSelectDevice(d) ==
  /\ d # msDevice
  /\ msDevice' = d
  /\ msStopSees' = IF msHook = "closure" THEN msStream ELSE 0
  /\ UNCHANGED <<msHook, msStream, msIsStreaming, msError, msStreamRef, msCalls,
                 msTracks, msOnEnded>>
  /\ UNCHANGED <<ttVars, pipeVars, liveVars, playVars, speechVars>>

\* startStream up to its await (part_005 52-100, use-media-stream.ts 39-65)
MediaStartStream ==
  /\ Len(msCalls) < MaxStreams
  /\ msError' = FALSE
  /\ msCalls' = Append(msCalls, [st |-> "acquiring", sees |-> msStopSees,
                                 dev |-> msDevice, stream |-> 0])
  /\ UNCHANGED <<msHook, msDevice, msStream, msIsStreaming, msStreamRef, msStopSees,
                 msTracks, msOnEnded>>
  /\ UNCHANGED <<ttVars, pipeVars, liveVars, playVars, speechVars>>

\* the error thrown for a refused stream: the isolation check comes first
\* (part_005 108-120), then the audio track check (124-127)
RefusalMessage(hook, dev, surface) ==
  IF hook = "ref" /\ ~MicrophonePath(hook, dev) /\ IsolationFails(dev, surface)
    THEN "isolation" ELSE "noaudio"

\* startStream after the await (part_005 100-148, use-media-stream.ts 67-86):
\* the acquisition rejects, or resolves with a stream whose video track
\* reports the given display surface
MediaStartDone(c, outcome, surface) ==
  /\ c \in DOMAIN msCalls
  /\ msCalls[c].st = "acquiring"
  /\ LET dev == msCalls[c].dev
         mic == MicrophonePath(msHook, dev)
         tracks == TracksOf(mic, outcome)
         x == Len(msTracks) + 1
     IN  /\ mic => (outcome # "noaudio" /\ surface = "none")
         /\ outcome = "rejected" => surface = "none"
         /\ IF outcome = "rejected"
              THEN \* the catch block (part_005 139-148, use-media-stream.ts 82-86)
                   /\ msError' = TRUE
                   /\ msIsStreaming' = FALSE
                   /\ msCalls' = [msCalls EXCEPT ![c].st = "failed"]
                   /\ UNCHANGED <<msStream, msStreamRef, msTracks, msOnEnded>>
              ELSE IF StreamRefused(msHook, dev, tracks, surface)
              THEN \* newStream.getTracks().forEach(t => t.stop()); throw; catch
                   /\ msTracks' = Append(msTracks, {})
                   /\ msOnEnded' = Append(msOnEnded, 0)
                   /\ msError' = TRUE
                   /\ msIsStreaming' = FALSE
                   /\ msCalls' = [msCalls EXCEPT
                        ![c].st = RefusalMessage(msHook, dev, surface),
                        ![c].stream = x]
                   /\ UNCHANGED <<msStream, msStreamRef>>
              ELSE /\ msTracks' = Append(msTracks, tracks)
                   /\ msOnEnded' = Append(msOnEnded, msCalls[c].sees)
                   /\ msStream' = x
                   /\ msStreamRef' = IF msHook = "ref" THEN x ELSE msStreamRef
                   /\ msIsStreaming' = TRUE
                   /\ msCalls' = [msCalls EXCEPT ![c].st = "streaming", ![c].stream = x]
                   /\ UNCHANGED msError
  /\ UNCHANGED <<msHook, msDevice, msStopSees>>
  /\ UNCHANGED <<ttVars, pipeVars, liveVars, playVars, speechVars>>

\* stopStream called by the component, from the latest render
MediaStopStream ==
  /\ SetMediaState(StopStream(MediaState, msStream))
  /\ UNCHANGED <<msHook, msDevice, msError, msStopSees, msCalls, msOnEnded>>
  /\ UNCHANGED <<ttVars, pipeVars, liveVars, playVars, speechVars>>

\* track t of stream x ends by itself and its onended runs (part_005 129-134,
\* use-media-stream.ts 73-78)
MediaTrackEnded(x, t) ==
  /\ x \in DOMAIN msTracks
  /\ t \in msTracks[x]
  /\ SetMediaState(StopStream([MediaState EXCEPT !.tracks[x] = @ \ {t}], msOnEnded[x]))
  /\ UNCHANGED <<msHook, msDevice, msError, msStopSees, msCalls, msOnEnded>>
  /\ UNCHANGED <<ttVars, pipeVars, liveVars, playVars, speechVars>>

MediaNext ==
  \/ \E d \in MediaDevices : MediaSelectDevice(d)
  \/ MediaStartStream
  \/ \E c \in DOMAIN msCalls, o \in Acquisitions, sf \in Surfaces :
        MediaStartDone(c, o, sf)
  \/ MediaStopStream
  \/ \E x \in DOMAIN msTracks, t \in StreamTracks : MediaTrackEnded(x, t)

(***************************************************************************)
(* useWebSpeech (src/hooks/use-web-speech.ts).  setIsListening schedules a *)
(* render; startListening and stopListening are memoized on [isListening]  *)
(* and the effect of lines 33-91, which registers the handlers, runs after *)
(* the render with deps [isListening, language].  Until it has run, the    *)
(* onend registered is the one of the earlier render.  recognition.stop()  *)
(* returns at once and the end event comes in a later task.                *)
(***************************************************************************)
\* startListening and stopListening calls of one run
MaxSpeechCalls == 3

\* values of the language prop
SpeechLanguages == {"en-US", "nl-BE"}

SpeechInit ==
  /\ wsIsListening = FALSE
  /\ wsLanguage = "en-US"
  /\ wsRendered = [isListening |-> FALSE, language |-> "en-US"]
  /\ wsHandler = FALSE
  /\ wsLang = "en-US"
  /\ wsRecognition = "idle"
  /\ wsCalls = 0
  /\ wsRestarts = 0

\* recognition.start(): throws unless the recognition is idle
StartThrows(rec) == rec # "idle"

\* the language prop changes
SpeechSetLanguage(l) ==
  /\ l # wsLanguage
  /\ wsLanguage' = l
  /\ UNCHANGED <<wsIsListening, wsRendered, wsHandler, wsLang, wsRecognition,
                 wsCalls, wsRestarts>>
  /\ UNCHANGED <<ttVars, pipeVars, liveVars, playVars, mediaVars>>

\* the component renders with the current state and props (lines 19-23,
\* 93-109)
SpeechRender ==
  /\ wsRendered # [isListening |-> wsIsListening, language |-> wsLanguage]
  /\ wsRendered' = [isListening |-> wsIsListening, language |-> wsLanguage]
  /\ UNCHANGED <<wsIsListening, wsLanguage, wsHandler, wsLang, wsRecognition,
                 wsCalls, wsRestarts>>
  /\ UNCHANGED <<ttVars, pipeVars, liveVars, playVars, mediaVars>>

\* the effect of lines 33-91 runs for the latest render: it sets the language
\* and registers onresult, onerror and onend
SpeechEffect ==
  /\ wsHandler # wsRendered.isListening \/ wsLang # wsRendered.language
  /\ wsHandler' = wsRendered.isListening
  /\ wsLang' = wsRendered.language
  /\ UNCHANGED <<wsIsListening, wsLanguage, wsRendered, wsRecognition, wsCalls,
                 wsRestarts>>
  /\ UNCHANGED <<ttVars, pipeVars, liveVars, playVars, mediaVars>>

\* startListening (lines 93-102)
StartListening ==
  /\ wsCalls < MaxSpeechCalls
  /\ wsCalls' = wsCalls + 1
  /\ IF ~wsRendered.isListening /\ ~StartThrows(wsRecognition)
       THEN /\ wsRecognition' = "running"
            /\ wsIsListening' = TRUE
       ELSE UNCHANGED <<wsRecognition, wsIsListening>>
  /\ UNCHANGED <<wsLanguage, wsRendered, wsHandler, wsLang, wsRestarts>>
  /\ UNCHANGED <<ttVars, pipeVars, liveVars, playVars, mediaVars>>

\* stopListening (lines 104-109)
StopListening ==
  /\ wsCalls < MaxSpeechCalls
  /\ wsCalls' = wsCalls + 1
  /\ IF wsRendered.isListening
       THEN /\ wsIsListening' = FALSE
            /\ wsRecognition' = IF wsRecognition = "running" THEN "stopping"
                                 ELSE wsRecognition
       ELSE UNCHANGED <<wsRecognition, wsIsListening>>
  /\ UNCHANGED <<wsLanguage, wsRendered, wsHandler, wsLang, wsRestarts>>
  /\ UNCHANGED <<ttVars, pipeVars, liveVars, playVars, mediaVars>>

\* line 81: if (isListening), the isListening of the render that registered
\* the handler
RestartsOnEnd(handler, state) == handler

\* the recognition ends, after stop() or by itself, and onend runs (80-89)
SpeechEnd ==
  /\ wsRecognition # "idle"
  /\ IF RestartsOnEnd(wsHandler, wsIsListening)
       THEN /\ wsRecognition' = "running"
            /\ wsRestarts' = IF wsRestarts < MaxSpeechCalls THEN wsRestarts + 1
                              ELSE wsRestarts
       ELSE /\ wsRecognition' = "idle"
            /\ UNCHANGED wsRestarts
  /\ UNCHANGED <<wsIsListening, wsLanguage, wsRendered, wsHandler, wsLang, wsCalls>>
  /\ UNCHANGED <<ttVars, pipeVars, liveVars, playVars, mediaVars>>

\* onerror with 'not-allowed' or 'service-not-allowed' (lines 70-78)
SpeechNotAllowed ==
  /\ wsRecognition = "running"
  /\ wsIsListening
  /\ wsIsListening' = FALSE
  /\ UNCHANGED <<wsLanguage, wsRendered, wsHandler, wsLang, wsRecognition, wsCalls,
                 wsRestarts>>
  /\ UNCHANGED <<ttVars, pipeVars, liveVars, playVars, mediaVars>>

SpeechNext ==
  \/ \E l \in SpeechLanguages : SpeechSetLanguage(l)
  \/ SpeechRender
  \/ SpeechEffect
  \/ StartListening
  \/ StopListening
  \/ SpeechEnd
  \/ SpeechNotAllowed

\* part_002 24-32, 53-55 and 127: the speech hook creates its output context
\* when it mounts and closes it when it unmounts, so a message that carries
\* audio finds it set
TtsPlays(audio) == audio

\* callbacks.onmessage of the speech session (part_002 124-168): any session
\* that is open may deliver a message, with or without audio
TtsMessage(audio) ==
  /\ opened > 0
  /\ liveMessages < MaxLiveInputs
  /\ liveMessages' = liveMessages + 1
  /\ livePlayed' = IF TtsPlays(audio) THEN livePlayed + 1 ELSE livePlayed
  /\ UNCHANGED <<liveTexts, audioDevice, liveKey, liveState, liveError, audioContextRef,
                 outputAudioContextRef, mediaStreamRef, processorRef,
                 sessionPromiseRef, liveProcessors, liveStreams, liveCalls,
                 liveSessions, liveFrames>>
  /\ UNCHANGED <<ttVars, pipeVars, playVars, mediaVars, speechVars>>

\* the speech session of the pipeline: connect, disconnect, the callbacks of
\* the sessions and the audio they deliver
SpeakNext ==
  \/ \E d \in DeviceTypes : SelectDevice(d)
  \/ ClickConnect
  \/ \E i \in DOMAIN connecting, ok \in BOOLEAN : StartStreamDone(i, ok)
  \/ ClickDisconnect
  \/ LiveOpen
  \/ LiveError
  \/ \E wasOpen \in BOOLEAN : LiveClose(wasOpen)
  \/ \E audio \in BOOLEAN : TtsMessage(audio)

\* the whole pipeline while the speech session fails, closes or is disconnected
TurnNext ==
  \/ SteadyNext
  \/ LiveError
  \/ \E wasOpen \in BOOLEAN : LiveClose(wasOpen)
  \/ ClickDisconnect

vars == <<ttVars, pipeVars, liveVars, playVars, mediaVars, speechVars>>

\* Spec: capture, routing and hand-over under every user and network event.
\* The remote translation does not answer in Spec: its answers change only
\* fields of a transcript that was already handed over, which no action of
\* PipeNext reads; SpecSteady explores them.
Init == TTInit /\ PipeInit /\ LiveInit /\ PlayInit /\ MediaInit /\ SpeechInit /\ liveKey = TRUE /\ msHook = "ref"

Next == PipeNext

Spec == Init /\ [][Next]_vars

SpecSteady == Init /\ [][SteadyNext]_vars

SpecTurn == Init /\ [][TurnNext]_vars

TransInit == Init /\ apiKey = TRUE

SpecTranslate == TransInit /\ [][TTNext]_vars

\* SpecLive: streaming sessions from connect to disconnect; SpecLiveFaults
\* adds the errors, closures and ended tracks that come from outside
LiveStart == TTInit /\ PipeInit /\ LiveInit /\ PlayInit /\ MediaInit /\ SpeechInit /\ apiKey = TRUE /\ msHook = "ref"

SpecLive == LiveStart /\ [][LiveNext]_vars

SpecLiveFaults == LiveStart /\ [][LiveNext \/ LiveFaultNext]_vars

\* SpecLiveText: the same with texts sent through sendText
SpecLiveText == LiveStart /\ [][LiveNext \/ LiveFaultNext \/ SendText]_vars

\* SpecSpeak: the speech session of the pipeline and its playback
SpecSpeak == Init /\ [][SpeakNext]_vars

\* SpecPlay: the scheduling of the audio buffers of the streaming session
SpecPlay == LiveStart /\ [][PlayNext]_vars

\* SpecMedia: useMediaStream under every order of its calls and track events,
\* for both versions of the hook
MediaStart ==
  TTInit /\ PipeInit /\ LiveInit /\ PlayInit /\ MediaInit /\ SpeechInit /\ apiKey = TRUE /\ liveKey = TRUE

SpecMedia == MediaStart /\ [][MediaNext]_vars

\* SpecSpeech: useWebSpeech under every order of its calls, renders and
\* recognition events
SpeechStart == MediaStart /\ msHook = "ref"

SpecSpeech == SpeechStart /\ [][SpeechNext]_vars

\* SpecIsolation: useMediaStream of part_005, the version with the strict
\* isolation check
IsolationStart == MediaStart /\ msHook = "ref"

SpecIsolation == IsolationStart /\ [][MediaNext]_vars


(***************************************************************************)
(* Properties                                                              *)
(***************************************************************************)
\* the transcripts of chunk i handed to processTranscript
HandedOver(i) ==
  {k \in DOMAIN transcripts : transcripts[k].src = "flash" /\ transcripts[k].chunk = i}

\* chunk i is still being transcribed
Outstanding(i) == chunks[i].st \in {"encoding", "requested"}

\* the transcript appended by this step, if any
Appended == Len(transcripts') = Len(transcripts) + 1

NewTranscript == transcripts'[Len(transcripts')]

\* C1: within a capture session the transcripts handed to onTranscript appear
\* in the order in which their chunks were captured.
C1_OutputOrderEqualsCaptureOrder ==
  \A a, b \in DOMAIN transcripts :
    ( /\ a < b
      /\ transcripts[a].src = "flash"
      /\ transcripts[b].src = "flash"
      /\ chunks[transcripts[a].chunk].sess = chunks[transcripts[b].chunk].sess )
    => transcripts[a].chunk < transcripts[b].chunk

C3_DrainStopsAtFirstGap ==
  [][ (Appended /\ NewTranscript.src = "flash")
        => \A i \in DOMAIN chunks :
             ( /\ i < NewTranscript.chunk
               /\ chunks[i].sess = chunks[NewTranscript.chunk].sess )
             => ~Outstanding(i) ]_vars

\* C4: a failed transcription hands nothing over, raises no error, and does
\* not hold back the result of a chunk captured after it.
C4_FailureIsSilentAndNonBlocking ==
  /\ ~chunkError
  /\ \A i \in DOMAIN chunks :
       chunks[i].st = "failed" => HandedOver(i) = {} /\ chunks[i].text = <<>>
  /\ \A i, j \in DOMAIN chunks :
       ( /\ i < j
         /\ chunks[i].st = "failed"
         /\ chunks[j].st = "done"
         /\ chunks[j].text # <<>> )
       => HandedOver(j) # {}

\* C4 witness: the request of a chunk was rejected and the chunk captured
\* after it has been handed over
C4_Witness ==
  \E i, j \in DOMAIN chunks :
    /\ i < j
    /\ chunks[i].st = "failed" /\ chunks[i].reqs = 1
    /\ HandedOver(j) # {}

\* C5: a transcription that completes after its capture session was torn down
\* is not handed over: a flash transcript is only handed over while the
\* recorder of its session is the one recording.
C5_NoHandOverAfterTeardown ==
  [][ (Appended /\ NewTranscript.src = "flash")
        => /\ recState = "recording"
           /\ recSess = chunks[NewTranscript.chunk].sess ]_vars

\* requests issued for transcription so far
TranscriptionRequests(cs) ==
  Cardinality({i \in DOMAIN cs : cs[i].reqs > 0})

\* C9: while the microphone is selected the chunk transcriber has no stream,
\* starts no recorder, issues no transcription request and hands nothing
\* over; while another device is selected no final speech result is
\* forwarded to processTranscript.
C9_HybridRouting ==
  [][ /\ (selectedDevice = "microphone" /\ selectedDevice' = "microphone")
          => /\ ~FlashStream(selectedDevice', stream')
             /\ ~timer'
             /\ recState' # "recording"
             /\ TranscriptionRequests(chunks') = TranscriptionRequests(chunks)
             /\ Appended => NewTranscript.src = "speech"
      /\ (selectedDevice # "microphone" /\ selectedDevice' # "microphone")
          => (Appended => NewTranscript.src = "flash") ]_vars

C8_ExactlyOneTranslationRequest ==
  /\ \A i \in DOMAIN chunks : chunks[i].reqs <= 1
  /\ \A k \in DOMAIN transcripts :
       transcripts[k].trReqs = 1 /\ transcripts[k].sends <= 1

\* C8 as amended: at most one transcription request per chunk; exactly one
\* translation request per transcript that is not blank and none for a blank
\* one; at most one send per transcript; whether the calls succeed or fail.
C8_NoRetry ==
  /\ \A i \in DOMAIN chunks : chunks[i].reqs <= 1
  /\ \A k \in DOMAIN transcripts :
       LET t == transcripts[k]
           blank == \A c \in DOMAIN t.text : t.text[c] = " "
       IN  /\ t.trReqs = IF blank THEN 0 ELSE 1
           /\ t.sends <= 1

\* C8 witness: the translation of a transcript failed, the fallback was sent
\* and the send threw; one request and one send were made
C8_Witness ==
  \E k \in DOMAIN transcripts :
    /\ transcripts[k].st = "done"
    /\ transcripts[k].trFailed
    /\ transcripts[k].sendFailed
    /\ transcripts[k].trReqs = 1
    /\ transcripts[k].sends = 1

\* a text of whitespace only
IsBlank(s) == \A c \in DOMAIN s : s[c] = " "

\* C6: translateText never fails to its caller; when the remote call fails it
\* returns the input text unchanged; for an empty or whitespace-only input
\* it returns the empty string and issues no remote request.
C6_TranslateNeverFails ==
  /\ ttPc # "threw"
  /\ (ttPc = "returned" /\ ttFailed) => ttResult = ttText
  /\ (ttPc # "idle" /\ IsBlank(ttText))
       => /\ ttPc = "returned"
          /\ ttResult = <<>>
          /\ ttRequests = 0
  /\ ttRequests <= 1

\* C6 witness: the remote call failed for a text with surrounding whitespace
\* and the call returned that text
C6_Witness ==
  /\ ttPc = "returned"
  /\ ttFailed
  /\ ttText = <<" ", "a">>
  /\ ttResult = <<" ", "a">>

\* the transcript that passes the check of line 621 in this step and goes on
\* to sendTextToLive
StartsSend(k) ==
  /\ k \in DOMAIN transcripts
  /\ transcripts[k].st = "translating"
  /\ transcripts'[k].st = "sending"

\* what processTranscript has done for transcript t is a prefix of: 'user'
\* message with the original text, translation request, 'eburon' message
\* with the translation, send of the translation
Sequenced(t) ==
  LET full == <<Event("user", t.text), Event("request", t.text),
                Event("eburon", t.translated), Event("send", t.translated)>>
      n == Len(t.log)
  IN  /\ n <= 4
      /\ t.log = SubSeq(full, 1, n)
      /\ n = 4 => t.translated # <<>>
      /\ IF IsBlank(t.text) THEN n = 0 /\ t.trReqs = 0
                            ELSE n >= 2 /\ t.trReqs = 1
      /\ t.st = "translating" <=> n = 2
      /\ t.st \in {"sending", "done"} => n >= 3

\* C11: the steps for one transcript are sequenced: one 'user' message with
\* the original text, then the translation request, then one 'eburon'
\* message with the translation, then the send of the translation, which
\* happens only if the translation is non-empty and the connection state is
\* CONNECTED; a blank transcript appends nothing and requests nothing.
C11_StepsSequenced ==
  [][ /\ \A k \in DOMAIN transcripts' : Sequenced(transcripts'[k])
      /\ \A k \in DOMAIN transcripts :
           StartsSend(k) => /\ transcripts'[k].translated # <<>>
                            /\ connectionState = CONNECTED ]_vars

\* C10: a session connected with audio input enabled streams every captured
\* frame to the remote session, in capture order (frames captured before the
\* session is established wait for it and are streamed first); a session
\* connected with audio input disabled never sends a captured frame and
\* never reports an input-transcription update, whatever it captures and
\* whatever the server sends, for its whole life.  (A session whose promise
\* rejected was never established: there is no remote session to stream to.)
C10_AudioInputGate ==
  \A s \in DOMAIN liveSessions :
    LET x == liveSessions[s]
    IN  /\ x.enable /\ x.promise = "resolved" =>
              x.sent = x.captured /\ x.queued = <<>>
        /\ x.enable /\ x.promise = "pending" =>
              x.queued = x.captured /\ x.sent = <<>>
        /\ ~x.enable =>
              x.sent = <<>> /\ x.queued = <<>> /\ x.updates = 0

\* an enabled session has streamed a frame and a disabled session has
\* captured a frame and received an input transcription
C10_Witness ==
  \E s, d \in DOMAIN liveSessions :
    /\ liveSessions[s].enable
    /\ liveSessions[s].promise = "resolved"
    /\ liveSessions[s].sent # <<>>
    /\ ~liveSessions[d].enable
    /\ liveSessions[d].ws = "open"
    /\ liveSessions[d].captured # <<>>
    /\ liveSessions[d].heard > 0

\* disconnect() has run and connect() has not been called since: the state is
\* DISCONNECTED, the session ref is null and no connect() is under way
AfterDisconnect ==
  /\ liveState = DISCONNECTED
  /\ sessionPromiseRef = 0
  /\ liveSessions # <<>>
  /\ \A c \in DOMAIN liveCalls : liveCalls[c].st # "acquiring"

\* this step is a call of connect()
ConnectCalled == Len(liveCalls') = Len(liveCalls) + 1

\* C12: after disconnect() and until the next connect() the connection state
\* stays DISCONNECTED: no callback of the abandoned session changes it.
C12_StaysDisconnected ==
  [][ (AfterDisconnect /\ ~ConnectCalled) => liveState' = DISCONNECTED ]_vars

\* this step is a call of sendText
TextSent == liveTexts' = liveTexts + 1

\* the texts session s has been given, delivered or waiting for its promise
TextsFor(ss, s) == ss[s].texts + ss[s].textq

\* C13: whenever the state is CONNECTED a session is held and it is a session
\* whose onopen has fired, so a sendText issued while CONNECTED goes to that
\* session; whenever no session is held, sendText sends nothing and raises
\* nothing.
C13_ConnectedHoldsSession ==
  [][ /\ liveState' = CONNECTED =>
           /\ sessionPromiseRef' # 0
           /\ liveSessions'[sessionPromiseRef'].ws = "open"
      /\ (TextSent /\ liveState = CONNECTED) =>
           /\ sessionPromiseRef # 0
           /\ TextsFor(liveSessions', sessionPromiseRef)
                = TextsFor(liveSessions, sessionPromiseRef) + 1
      /\ (TextSent /\ sessionPromiseRef = 0) => UNCHANGED liveSessions ]_vars

\* the sessions whose socket is open
OpenSessions == {s \in DOMAIN liveSessions : liveSessions[s].ws = "open"}

\* C14: at most one remote session is open at any time, and an open session
\* is the one the hook holds: a session of an earlier connect() is closed
\* before or when it is replaced or disconnected.
C14_AtMostOneOpenSession ==
  /\ Cardinality(OpenSessions) <= 1
  /\ \A s \in OpenSessions : s = sessionPromiseRef

\* this step is a connect() that ends in its catch block before creating a
\* session: the stream was not acquired or has no audio track
AcquisitionFailed ==
  \E c \in DOMAIN liveCalls : /\ liveCalls[c].st = "acquiring"
                               /\ liveCalls'[c].st = "failed"

\* this step is a connect() without an API key
KeyMissing == ~liveKey /\ liveState' = ERROR

\* no audio resource is held and none that a ref held is left running
AudioReleased ==
  /\ processorRef = 0
  /\ mediaStreamRef = 0
  /\ ~audioContextRef
  /\ ~outputAudioContextRef

\* this step is a connect() that gets past the API key check
ConnectStarted == Len(liveCalls') = Len(liveCalls) + 1 /\ liveState' = CONNECTING

\* C15: when connect() fails before the session is created (key missing,
\* acquisition rejected, no audio track) the state ends as ERROR with an error
\* message, the audio resources are released and what the refs held is
\* stopped, and no session is held; a later connect() clears the error first.
C15_FailedConnectReleases ==
  [][ /\ (AcquisitionFailed \/ KeyMissing) =>
           /\ liveState' = ERROR
           /\ liveError'
           /\ AudioReleased'
           /\ mediaStreamRef \notin liveStreams'
           /\ processorRef \notin liveProcessors'
           /\ sessionPromiseRef' = 0
      /\ ConnectStarted => ~liveError' ]_vars

\* this step is a call of disconnect(), from the button or from track.onended
DisconnectCalled == StreamDisconnect \/ \E c \in liveStreams : StreamTrackEnded(c)

\* disconnect() was called after the last session was created: only
\* disconnect() nulls the session ref, only connect() sets it
SessionDropped == sessionPromiseRef = 0 /\ liveSessions # <<>>

\* the audio frames delivered to the remote sessions
FramesSent == [s \in DOMAIN liveSessions |-> liveSessions[s].sent]

\* C16: after disconnect() the capture resources are released (processor
\* disconnected, tracks stopped, contexts closed, refs and session ref null),
\* no further audio frame is sent to the remote session, and a second
\* disconnect() changes nothing.
C16_DisconnectReleasesCapture ==
  [][ /\ DisconnectCalled =>
           /\ AudioReleased'
           /\ sessionPromiseRef' = 0
           /\ mediaStreamRef \notin liveStreams'
           /\ processorRef \notin liveProcessors'
      /\ (SessionDropped /\ SessionDropped') => FramesSent' = FramesSent
      /\ (DisconnectCalled /\ SessionDropped /\ AudioReleased
            /\ liveState = DISCONNECTED) =>
           UNCHANGED <<liveState, liveError, audioContextRef, outputAudioContextRef,
                       mediaStreamRef, processorRef, sessionPromiseRef,
                       liveProcessors, liveSessions>> ]_vars

\* this step is an onmessage that starts a buffer source
PlaybackStarted == livePlayed' = livePlayed + 1

\* C17: after disconnect() and before the next connect() a server message that
\* carries audio starts no buffer source.
C17_NoPlaybackAfterDisconnect ==
  [][ ~sessionRef => ~PlaybackStarted ]_vars

\* each buffer starts no earlier than the end of the buffer started before it
NoOverlap ==
  \A k \in 1..(Len(playStarted) - 1) :
     playStarted[k + 1].at >= playStarted[k].at + playStarted[k].dur

\* the buffers are started in the order in which their messages arrived
ArrivalOrder ==
  \A k \in 1..(Len(playStarted) - 1) : playStarted[k].msg < playStarted[k + 1].msg

\* this step starts at least one buffer
BufferStarted == Len(playStarted') > Len(playStarted)

\* C18: each buffer starts at max(nextStartTime, currentTime) and nextStartTime
\* then advances by its duration, so nextStartTime never decreases, no buffer
\* starts before the end of the buffer scheduled before it, and the buffers
\* are scheduled in arrival order, also across the await on resume().
C18_GaplessInOrder ==
  [][ /\ nextStartTimeRef' >= nextStartTimeRef
      /\ BufferStarted =>
           LET b == playStarted'[Len(playStarted) + 1]
           IN  b.at = StartTime(nextStartTimeRef, playClock[playRef])
      /\ playStarted' # <<>> =>
           LET z == playStarted'[Len(playStarted')]
           IN  nextStartTimeRef' = z.at + z.dur
      /\ NoOverlap'
      /\ ArrivalOrder' ]_vars

\* this step is the onended of a track of the stream the hook holds
HeldTrackEnded ==
  /\ msStream # 0
  /\ \E t \in StreamTracks : MediaTrackEnded(msStream, t)

\* C19: when a track of the captured stream ends, useMediaStream ends with
\* stream = null and isStreaming = false and every track of that stream
\* stopped.
C19_TrackEndTearsDown ==
  [][ HeldTrackEnded =>
        /\ msStream' = 0
        /\ ~msIsStreaming'
        /\ msTracks'[msStream] = {} ]_vars

\* this step is a startStream that ran to its end
StartCompleted ==
  \E c \in DOMAIN msCalls : /\ msCalls[c].st = "acquiring"
                            /\ msCalls'[c].st # "acquiring"

\* C20: after every completed startStream or stopStream isStreaming is true
\* exactly when stream is non-null; stopStream leaves stream = null and
\* isStreaming = false with all tracks of the held stream stopped, and a
\* second stopStream changes nothing.
C20_StreamingIffStream ==
  [][ /\ (StartCompleted \/ MediaStopStream) => (msIsStreaming' <=> msStream' # 0)
      /\ MediaStopStream =>
           /\ msStream' = 0
           /\ ~msIsStreaming'
           /\ msStream # 0 => msTracks'[msStream] = {}
           /\ StopStream(MediaState', msStream') = MediaState' ]_vars

\* the streams acquired that still have a live track
LiveMediaStreams == {x \in DOMAIN msTracks : msTracks[x] # {}}

\* C21: in part_005 at most one acquired stream has live tracks at any time,
\* and every acquired stream that is not the current one has had all its
\* tracks stopped, also when startStream is called while a call is pending
\* or a stream is held.
C21_OneLiveStream ==
  msHook = "ref" =>
    /\ Cardinality(LiveMediaStreams) <= 1
    /\ \A x \in LiveMediaStreams : x = msStream

\* this step is a startStream whose acquisition resolved with a stream that
\* has no audio track
NoAudioAcquired ==
  \E c \in DOMAIN msCalls, sf \in Surfaces : MediaStartDone(c, "noaudio", sf)

\* the streams startStream refused after acquiring them
RefusedStreams ==
  {msCalls[c].stream :
     c \in {k \in DOMAIN msCalls : msCalls[k].st \in {"isolation", "noaudio"}}}

\* no stream that was refused is in the state or in the ref
NeverExposed == \A x \in RefusedStreams : msStream # x /\ msStreamRef # x

\* C22: if the acquired stream has no audio track, startStream stops every
\* track of it, sets the error, leaves stream null and isStreaming false, and
\* the stream is never exposed to consumers.
C22_NoAudioRefused ==
  [][ /\ NoAudioAcquired =>
           /\ msTracks'[Len(msTracks')] = {}
           /\ Len(msTracks') = Len(msTracks) + 1
           /\ msError'
           /\ msStream' = 0
           /\ ~msIsStreaming'
      /\ NeverExposed' ]_vars

\* the display surface the strict isolation check expects for a device type
IsolatedSurface ==
  [tab |-> "browser", window |-> "window", zoom |-> "window", system |-> "monitor"]

\* call c ends in this step with a stream refused by the isolation check:
\* every track stopped, the error set, the stream kept out of the state
RefusedInIsolation(c) ==
  LET x == Len(msTracks) + 1
  IN  /\ msCalls'[c].st = "isolation"
      /\ msCalls'[c].stream = x
      /\ Len(msTracks') = x
      /\ msTracks'[x] = {}
      /\ msError'
      /\ msStream' # x
      /\ msStreamRef' # x

\* call c ends in this step with its stream accepted
Accepted(c) ==
  LET x == Len(msTracks) + 1
  IN  /\ msCalls'[c].st = "streaming"
      /\ msStream' = x
      /\ msStreamRef' = x
      /\ msTracks'[x] = {"audio", "video"}
      /\ msIsStreaming'

\* C23: for the device types tab, window/zoom and system the expected display
\* surface is browser, window and monitor; a stream whose video track reports
\* another surface has every track stopped, sets an error and is never
\* exposed; a stream for which no surface is reported, or the expected one,
\* passes the check and is accepted if it has an audio track.
C23_StrictIsolation ==
  [][ /\ \A c \in DOMAIN msCalls, o \in {"ok", "noaudio"}, sf \in Surfaces :
           (MediaStartDone(c, o, sf) /\ msCalls[c].dev \in DOMAIN IsolatedSurface) =>
              IF sf # "none" /\ sf # IsolatedSurface[msCalls[c].dev]
                THEN RefusedInIsolation(c)
                ELSE /\ msCalls'[c].st # "isolation"
                     /\ o = "ok" => Accepted(c)
      /\ NeverExposed' ]_vars

\* a tab capture for which the user picked another surface was refused, and a
\* later capture was accepted
C23_Witness ==
  \E c, k \in DOMAIN msCalls :
     /\ msCalls[c].st = "isolation"
     /\ msCalls[c].dev = "tab"
     /\ msTracks[msCalls[c].stream] = {}
     /\ msCalls[k].st = "streaming"
     /\ msCalls[k].dev \in DOMAIN IsolatedSurface

\* this step is the end event of a recognition that stopListening stopped
EndAfterStop == wsRecognition = "stopping" /\ SpeechEnd

\* C24: after stopListening() the end event caused by the stop never calls
\* recognition.start(), whether it comes before or after the handlers are
\* registered again.
C24_NoRestartAfterStop ==
  [][ EndAfterStop => wsRecognition' = "idle" ]_vars

====
